---- MODULE Spec2Model ----
(***************************************************************************)
(* A model of the account synchronizer sync_accounts_v2.py: name           *)
(* normalization, depth computation over the source hierarchy and the      *)
(* sequential reconciliation loop sync_all.                                 *)
(*                                                                         *)
(* Strings are sequences of one-character strings.  The Python values that *)
(* are not strings (None, 0, 1) are one-element sequences holding a tag of *)
(* more than one character, so they never equal a string of the model.     *)
(***************************************************************************)
EXTENDS Integers, Sequences, FiniteSets, TLC

VARIABLES
  name0,               \* normalize harness: the name under test
  calls,               \* normalize harness: the calls of normalize_name made so far
  dry_run,             \* sync_all argument
  max_parent_retries,  \* sync_all argument
  name_to_doc,         \* the source inventory, in the order the source listed it
  target,              \* the documents the remote target store holds
  target0,             \* history: the target store as the run found it
  target_norm_lookup,  \* NormalizedKey -> target document (the MatchTable)
  depths,              \* the depth map, an insertion-ordered dict
  order,               \* the source names in processing order (depth buckets flattened)
  idx,                 \* position of the loop that is running
  pc,                  \* where sync_all stands
  cur,                 \* the locals of the record being processed
  log,                 \* history: remote calls sent and MatchTable inserts, in order
  decisions,           \* history: the per-record decisions logged, in order
  outcomes,            \* history: the terminal outcome of each processed record
  fail_budget,         \* how many more remote calls the environment may fail
  phase,               \* 0: a single run; 1, 2: first and second run of a pair
  prev_decisions       \* the decisions of the first run of a pair

normVars == <<name0, calls>>
syncVars == <<dry_run, max_parent_retries, name_to_doc, target, target0, target_norm_lookup,
              depths, order, idx, pc, cur, log, decisions, outcomes, fail_budget,
              phase, prev_decisions>>
vars == <<normVars, syncVars>>

---------------------------------------------------------------------------
(* Bounds of the model. *)

\* Longest name the normalization harness draws.
MaxLen == 4
\* Most records a source inventory of a sync run holds.
MaxSrc == 3
\* Largest max_parent_retries a run is started with.
MaxRetries == 2
\* Most remote calls the environment fails in one run.
MaxFailures == 2

---------------------------------------------------------------------------
(* Python values. *)

None == <<"None">>
Zero == <<"#0">>
One == <<"#1">>

\* The None that stands where a document (a dict) is expected.
NoDoc == [none |-> One]

\* Python truthiness of the values the code tests with "if x" / "x or y".
Falsy(v) == v = None \/ v = <<>> \/ v = Zero

\* d.get(k)
Get(d, k) == IF k \in DOMAIN d THEN d[k] ELSE None

\* (x or "")
OrEmpty(v) == IF Falsy(v) THEN <<>> ELSE v

---------------------------------------------------------------------------
(* Characters. *)

Digits == {"0", "1", "2", "3", "4", "5", "6", "7", "8", "9"}
Spaces == {" ", "\n", "\t"}
\* The character class [\s\-\._:] of _leading_number_re.
Separators == Spaces \cup {"-", ".", "_", ":"}

IsSpace(c) == c \in Spaces
IsSeparator(c) == c \in Separators

\* str.lower() on one character.
LowerChar(c) ==
  CASE c = "A" -> "a"
    [] c = "B" -> "b"
    [] c = "C" -> "c"
    [] c = "R" -> "r"
    [] OTHER -> c

LowerStr(s) == [i \in 1..Len(s) |-> LowerChar(s[i])]

\* The element of a one-element set.  Only({F(x) : x \in {e}}) is F applied
\* to the value of e, worked out once.
Only(S) == CHOOSE x \in S : TRUE

\* The members of a set At of positions, in ascending order.
Positions(At) ==
  [k \in 1..Cardinality(At) |-> CHOOSE i \in At : Cardinality({j \in At : j <= i}) = k]

\* str.strip()
Strip(s) ==
  IF \A i \in 1..Len(s) : s[i] \in Spaces THEN <<>>
  ELSE SubSeq(s, CHOOSE j \in 1..Len(s) : s[j] \notin Spaces
                                          /\ \A i \in 1..(j - 1) : s[i] \in Spaces,
                 CHOOSE j \in 1..Len(s) : s[j] \notin Spaces
                                          /\ \A i \in (j + 1)..Len(s) : s[i] \in Spaces)

\* re.sub(r"\s+", " ", s): every character that is no whitespace stays, and
\* each whitespace run leaves one space where it starts.
CollapseAt(s, kept) ==
  [k \in 1..Len(kept) |-> IF s[kept[k]] \in Spaces THEN " " ELSE s[kept[k]]]

CollapseSpaces(s) ==
  CollapseAt(s, Positions({i \in 1..Len(s) :
                             s[i] \notin Spaces \/ i = 1 \/ s[i - 1] \notin Spaces}))

\* The length of the prefix of n that ^\s*\d+[\s\-\._:]+ matches: a whitespace
\* run, a digit run and the longest separator run after it (the quantifiers
\* are greedy, and a shorter run only moves separators into the group).
\* Empty when n has no such prefix, one element otherwise.
NumberEnds(n) ==
  {p \in 2..Len(n) :
     /\ \E a \in 0..(p - 2), b \in 1..(p - 1) :
          /\ a < b
          /\ \A i \in 1..a : n[i] \in Spaces
          /\ \A i \in (a + 1)..b : n[i] \in Digits
          /\ \A i \in (b + 1)..p : n[i] \in Separators
     /\ (p = Len(n) \/ n[p + 1] \notin Separators)}

NoMatch == [matched |-> FALSE, group |-> <<>>]

\* (.*)$ on the remainder: "." does not match a line break and $ matches at
\* the end or just before one line break that ends the string, so there is no
\* match when the remainder holds a line break anywhere but at its end, and
\* the group leaves a final one out.
GroupOf(rest) ==
  IF \E i \in 1..(Len(rest) - 1) : rest[i] = "\n" THEN NoMatch
  ELSE [matched |-> TRUE,
        group |-> IF rest # <<>> /\ rest[Len(rest)] = "\n"
                  THEN SubSeq(rest, 1, Len(rest) - 1) ELSE rest]

\* _leading_number_re.match(n): ^\s*\d+[\s\-\._:]+(.*)$
leading_number_match(n) ==
  IF NumberEnds(n) = {} THEN NoMatch
  ELSE Only({GroupOf(SubSeq(n, p + 1, Len(n))) : p \in NumberEnds(n)})

\* m.group(1).strip() if m else n
without_number(n, m) == IF m.matched THEN Strip(m.group) ELSE n

\* n = name.strip(); m = _leading_number_re.match(n); if m: n = ...
strip_number(name) ==
  Only({without_number(n, m) : <<n, m>> \in
          {<<t, leading_number_match(t)>> : t \in {Strip(name)}}})

\* normalize_name without the final lower-casing.
normalize_name_keeps_case(name) ==
  IF Falsy(name) THEN <<>>
  ELSE Only({CollapseSpaces(n) : n \in {strip_number(name)}})

normalize_name(name) ==
  IF Falsy(name) THEN <<>>
  ELSE Only({LowerStr(CollapseSpaces(n)) : n \in {strip_number(name)}})

---------------------------------------------------------------------------
(* Insertion-ordered dicts (depths) and documents. *)

EmptyDict == [keys |-> <<>>, val |-> <<>>]

\* d[k] = v on a Python dict: a new key goes last, an old key keeps its place.
DictSet(d, k, v) ==
  IF k \in DOMAIN d.val
  THEN [d EXCEPT !.val = [x \in DOMAIN d.val |-> IF x = k THEN v ELSE d.val[x]]]
  ELSE [keys |-> Append(d.keys, k),
        val |-> [x \in DOMAIN d.val \cup {k} |-> IF x = k THEN v ELSE d.val[x]]]

\* An assignment that replaces the whole dict by the one entry.
MapSetAlone(m, k, v) == [x \in {k} |-> v]

\* An assignment to a plain dict that is lost.
MapSetDropped(m, k, v) == m

\* A plain dict (no order kept) with d[k] = v.
MapSet(m, k, v) == [x \in DOMAIN m \cup {k} |-> IF x = k THEN v ELSE m[x]]

NoCur == [src_name |-> None, src_doc |-> NoDoc, src_norm |-> <<>>,
          tgt_full |-> NoDoc, attempts |-> 0]

\* The sync variables while another harness runs.
SyncIdle ==
  /\ dry_run = FALSE
  /\ max_parent_retries = 0
  /\ name_to_doc = <<>>
  /\ target = {}
  /\ target0 = {}
  /\ target_norm_lookup = <<>>
  /\ depths = EmptyDict
  /\ order = <<>>
  /\ idx = 0
  /\ pc = "idle"
  /\ cur = NoCur
  /\ log = <<>>
  /\ decisions = <<>>
  /\ outcomes = <<>>
  /\ fail_budget = 0
  /\ phase = 0
  /\ prev_decisions = <<>>

---------------------------------------------------------------------------
(* The normalization harness: normalize_name applied to a name, then to    *)
(* a second argument derived from that name.                               *)

NormAlphabet == {"1", " ", "\n", "-", "a", "A"}

RECURSIVE StringsOfLen(_)
StringsOfLen(n) ==
  IF n = 0 THEN {<<>>}
  ELSE {<<c>> \o s : c \in NormAlphabet, s \in StringsOfLen(n - 1)}

\* Two longer names: the documented example, and a name with leading
\* whitespace, a numeric prefix and a line break.
ExampleNames ==
  {<<"C", "a", "s", "h">>, <<" ", "1", " ", "a", "\n", "b">>}

Names == UNION {StringsOfLen(n) : n \in 0..MaxLen} \cup ExampleNames

\* The digit runs and separator runs a numeric prefix is built from.
DigitRuns == {<<"1">>, <<"1", "1">>, <<"1", "0", "0", "0">>}
SepChars == {" ", "-", "\n"}
SepRuns == {<<c>> : c \in SepChars}
             \cup {<<c, d>> : c \in SepChars, d \in SepChars}
             \cup {<<" ", "-", " ">>}

\* The maximal whitespace runs of s that touch neither end of s, as <<first, last>>.
InternalSpaceRuns(s) ==
  {r \in (2..Len(s) - 1) \X (2..Len(s) - 1) :
     /\ r[1] <= r[2]
     /\ \A i \in r[1]..r[2] : IsSpace(s[i])
     /\ ~IsSpace(s[r[1] - 1])
     /\ ~IsSpace(s[r[2] + 1])}

Call(arg, how) == [arg |-> arg, res |-> normalize_name(arg), how |-> how]

InitNorm ==
  /\ name0 \in Names
  /\ calls = <<>>
  /\ SyncIdle

NormalizeInput ==
  /\ calls = <<>>
  /\ calls' = <<Call(name0, "input")>>
  /\ UNCHANGED <<name0, syncVars>>

NormalizeAgain ==
  /\ Len(calls) = 1
  /\ calls' = Append(calls, Call(calls[1].res, "again"))
  /\ UNCHANGED <<name0, syncVars>>

NormalizePrefixed ==
  /\ Len(calls) = 1
  /\ \E d \in DigitRuns, s \in SepRuns :
       calls' = Append(calls, Call(d \o s \o name0, "prefixed"))
  /\ UNCHANGED <<name0, syncVars>>

NormalizeLowered ==
  /\ Len(calls) = 1
  /\ calls' = Append(calls, Call(LowerStr(name0), "lowered"))
  /\ UNCHANGED <<name0, syncVars>>

NormalizeCollapsed ==
  /\ Len(calls) = 1
  /\ \E r \in InternalSpaceRuns(name0) :
       calls' = Append(calls,
                  Call(SubSeq(name0, 1, r[1] - 1) \o <<" ">>
                         \o SubSeq(name0, r[2] + 1, Len(name0)), "collapsed"))
  /\ UNCHANGED <<name0, syncVars>>

NextNorm ==
  \/ NormalizeInput
  \/ NormalizeAgain
  \/ NormalizePrefixed
  \/ NormalizeLowered
  \/ NormalizeCollapsed

SpecNorm == InitNorm /\ [][NextNorm]_vars

---------------------------------------------------------------------------
(* Documents: functions from field names to values. *)

COMPARE_FIELDS == {"account_name", "parent_account", "account_type", "root_type",
                   "report_type", "is_group", "company"}

\* The keys prepare_source_doc_for_transfer copies.
TransferFields == {"name", "account_name", "parent_account", "is_group",
                   "account_type", "root_type", "report_type", "company"}

\* The keys sync_all pops from the document it is about to compare and send.
ProtectedFields == {"account_currency", "balance", "total_debit", "total_credit"}

Restrict(doc, keys) == [k \in DOMAIN doc \cap keys |-> doc[k]]

Without(doc, keys) == [k \in DOMAIN doc \ keys |-> doc[k]]

\* doc with doc[k] = v for every key k of upd.
Merge(doc, upd) ==
  [k \in DOMAIN doc \cup DOMAIN upd |-> IF k \in DOMAIN upd THEN upd[k] ELSE doc[k]]

\* prepare_source_doc_for_transfer copying every key of the source document.
prepare_copies_everything(src) == src

prepare_source_doc_for_transfer(src) == Restrict(src, TransferFields)

\* The NormalizedKey of the parent reference a document carries, None if it
\* carries none.
ParentKeyOf(doc) ==
  IF Falsy(Get(doc, "parent_account")) THEN None
  ELSE normalize_name(doc["parent_account"])

\* account_differences comparing the source's parent key with the target's
\* raw parent reference.
account_differences_raw_parent(src_doc, tgt_doc) ==
  LET Differs(f) == IF f = "parent_account"
                    THEN ParentKeyOf(src_doc) # Get(tgt_doc, "parent_account")
                    ELSE OrEmpty(Get(src_doc, f)) # OrEmpty(Get(tgt_doc, f))
  IN [f \in {g \in COMPARE_FIELDS : Differs(g)} |-> <<Get(src_doc, f), Get(tgt_doc, f)>>]

\* The field -> (source value, target value) mapping of the differing fields.
account_differences(src_doc, tgt_doc) ==
  LET Differs(f) == IF f = "parent_account"
                    THEN ParentKeyOf(src_doc) # ParentKeyOf(tgt_doc)
                    ELSE OrEmpty(Get(src_doc, f)) # OrEmpty(Get(tgt_doc, f))
  IN [f \in {g \in COMPARE_FIELDS : Differs(g)} |-> <<Get(src_doc, f), Get(tgt_doc, f)>>]

---------------------------------------------------------------------------
(* The source inventory and the depth map. *)

\* list(name_to_doc.keys())
SourceNames(n2d) == [i \in 1..Len(n2d) |-> n2d[i]["name"]]

HasDoc(n2d, name) == \E i \in 1..Len(n2d) : n2d[i]["name"] = name

\* name_to_doc[name]
DocOf(n2d, name) == n2d[CHOOSE i \in 1..Len(n2d) : n2d[i]["name"] = name]

\* name_to_doc.get(name, {}).get("parent_account")
ParentOf(n2d, name) ==
  IF HasDoc(n2d, name) THEN Get(DocOf(n2d, name), "parent_account") ELSE None

\* normalize_name(cd.get("name") or cd.get("account_name") or cand)
KeyOfSourceDoc(cd) ==
  normalize_name(IF ~Falsy(Get(cd, "name")) THEN cd["name"]
                 ELSE IF ~Falsy(Get(cd, "account_name")) THEN cd["account_name"]
                 ELSE cd["name"])

\* The name of the first record, in inventory order, whose NormalizedKey is
\* pnorm; None when there is none.
FirstCandidate(n2d, pnorm) ==
  IF \A i \in 1..Len(n2d) : KeyOfSourceDoc(n2d[i]) # pnorm THEN None
  ELSE n2d[CHOOSE i \in 1..Len(n2d) :
             /\ KeyOfSourceDoc(n2d[i]) = pnorm
             /\ \A j \in 1..(i - 1) : KeyOfSourceDoc(n2d[j]) # pnorm]["name"]

\* The source record a parent reference resolves to: the record of that exact
\* name, else the first record (in inventory order) with the reference's
\* NormalizedKey, else None.
find_parent_in_source(n2d, parent) ==
  IF HasDoc(n2d, parent) THEN parent
  ELSE Only({FirstCandidate(n2d, pnorm) : pnorm \in {normalize_name(parent)}})

\* depths[name] = d; return d
DepthSet(dep, name, d, visited) ==
  [d |-> d, depths |-> DictSet(dep, name, d), visited |-> visited]

\* A depth that forgets the parent's: d = 1.
DepthBelowRoot(name, r) == DepthSet(r.depths, name, 1, r.visited)

\* d = 1 + compute_depth_for(parent_key, visited); depths[name] = d; return d
DepthBelow(name, r) == DepthSet(r.depths, name, 1 + r.d, r.visited)

\* compute_depth_for(name, visited) with the depths dict it reads and writes:
\* the depth returned, the dict and the visited set after the call.
RECURSIVE compute_depth_for(_, _, _, _)
compute_depth_for(n2d, name, dep, visited) ==
  IF name \in DOMAIN dep.val
  THEN [d |-> dep.val[name], depths |-> dep, visited |-> visited]
  ELSE IF name \in visited
  THEN DepthSet(dep, name, 0, visited)
  ELSE IF Falsy(ParentOf(n2d, name))
  THEN DepthSet(dep, name, 0, visited \cup {name})
  ELSE Only({IF parent_key = None
             THEN DepthSet(dep, name, 1, visited \cup {name})
             ELSE Only({DepthBelow(name, r) :
                          r \in {compute_depth_for(n2d, parent_key, dep,
                                                   visited \cup {name})}}) :
               parent_key \in {find_parent_in_source(n2d, ParentOf(n2d, name))}})

\* The names in the order of the depths dict, whatever their depth.
processing_order_unsorted(dep) == dep.keys

\* Whether the name at position j of the depths dict is processed before the
\* name at position i: it is in a bucket of smaller depth, or in the same
\* bucket and earlier in the dict.
ProcessedBefore(dep, j, i) ==
  \/ dep.val[dep.keys[j]] < dep.val[dep.keys[i]]
  \/ dep.val[dep.keys[j]] = dep.val[dep.keys[i]] /\ j < i

\* for depth in sorted(depth_buckets.keys()): for src_name in
\* depth_buckets[depth]: the names bucket by bucket, buckets by ascending
\* depth, each bucket in the order of the depths dict.
processing_order(dep) ==
  [k \in 1..Len(dep.keys) |->
     dep.keys[CHOOSE i \in 1..Len(dep.keys) :
                Cardinality({j \in 1..Len(dep.keys) : ProcessedBefore(dep, j, i)}) = k - 1]]

---------------------------------------------------------------------------
(* The inventories a run starts from. *)

TypeX == <<"x">>
TypeY == <<"y">>

\* The identifying names of source records and the parent references they
\* carry; <<"2", "-", "R">> names no source record.
SrcNames == {<<"A">>, <<"1", " ", "A">>, <<"B">>}
ParentRefs == {None, <<"A">>, <<"B">>, <<"2", "-", "R">>}

\* The display name the store keeps beside an identifying name: the name
\* without its account number.
AccountNameOf(name) ==
  LET m == leading_number_match(name)
  IN IF m.matched THEN Strip(m.group) ELSE name

StoreDoc(name, parent, is_group, type, balance) ==
  [name |-> name, account_name |-> AccountNameOf(name), parent_account |-> parent,
   is_group |-> is_group, account_type |-> type, root_type |-> <<"r">>,
   report_type |-> <<"p">>, company |-> <<"c">>,
   account_currency |-> <<"$">>, balance |-> balance]

\* A source listing: distinct names; a record is a group iff a record of the
\* listing names it as parent.
SourceListings ==
  UNION {{l \in [1..n -> SrcNames \X ParentRefs] :
            \A i, j \in 1..n : i # j => l[i][1] # l[j][1]} : n \in 1..MaxSrc}

SourceInventory(l) ==
  [i \in 1..Len(l) |->
     StoreDoc(l[i][1], l[i][2],
              IF \E j \in 1..Len(l) :
                   l[j][2] # None /\ normalize_name(l[j][2]) = normalize_name(l[i][1])
              THEN One ELSE Zero,
              TypeX, <<"9">>)]

SourceInventories == {SourceInventory(l) : l \in SourceListings}

\* The target store names its records with an account number of its own.
TargetPrefix == <<"7", " ">>

TargetA(type) == StoreDoc(TargetPrefix \o <<"A">>, None, One, type, <<"5">>)
TargetB == StoreDoc(TargetPrefix \o <<"B">>, TargetPrefix \o <<"A">>, Zero, TypeX, <<"5">>)

TargetInventories ==
  {{}, {TargetA(TypeX)}, {TargetA(TypeY)}, {TargetA(TypeX), TargetB}}

---------------------------------------------------------------------------
(* The remote target store. *)

TargetNames(tgt) == {d["name"] : d \in tgt}

\* get_account on a store that answers: the document of that name, or None
\* NoDoc (not found).
TargetGet(tgt, name) ==
  IF name \in TargetNames(tgt) THEN CHOOSE d \in tgt : d["name"] = name ELSE NoDoc

\* The name the store gives a created record: its own account number, then
\* the display name of the payload (the identifying name if it has none).
TargetNameOf(payload) ==
  TargetPrefix \o (IF ~Falsy(Get(payload, "account_name")) THEN payload["account_name"]
                   ELSE Get(payload, "name"))

\* The document the store returns for an accepted create.
CreatedDoc(payload) == Merge(payload, [name |-> TargetNameOf(payload)])

\* The store after an accepted update of the record called name.
TargetUpdated(tgt, name, payload) ==
  {IF d["name"] = name THEN Merge(d, payload) ELSE d : d \in tgt}

\* target_norm_lookup as sync_all seeds it from the target listing.
seed_lookup(tgt) ==
  LET KeyOf(a) == normalize_name(IF ~Falsy(Get(a, "name")) THEN a["name"]
                                 ELSE Get(a, "account_name"))
      Named == {a \in tgt : ~Falsy(Get(a, "name")) \/ ~Falsy(Get(a, "account_name"))}
  IN [k \in {KeyOf(a) : a \in Named} |-> CHOOSE a \in Named : KeyOf(a) = k]

\* What a remote call may answer: "ok", "none" (the helper logs the failure
\* and returns None) or "raise" (an exception the helper does not catch).
Faults == IF fail_budget > 0 THEN {"none", "raise"} ELSE {}
CallResults == {"ok"} \cup Faults
\* The store rejects a create whose name it already holds.
CreateResults(payload) ==
  IF TargetNameOf(payload) \in TargetNames(target) THEN {"none"} \cup Faults
  ELSE CallResults
\* What an answer takes from fail_budget: a rejection the store owes costs nothing.
Spent(res, results) ==
  IF res = "ok" \/ (res = "none" /\ "ok" \notin results) THEN 0 ELSE 1

---------------------------------------------------------------------------
(* sync_all. *)

\* What sync_all never writes after its start-up.
runConstants == <<normVars, dry_run, max_parent_retries, name_to_doc, target0,
                  depths, order, phase, prev_decisions>>

Init ==
  /\ name0 = <<>>
  /\ calls = <<>>
  /\ dry_run \in BOOLEAN
  /\ max_parent_retries \in 1..MaxRetries
  /\ name_to_doc \in SourceInventories
  /\ target \in TargetInventories
  /\ target0 = target
  /\ target_norm_lookup = seed_lookup(target)
  /\ depths = EmptyDict
  /\ order = <<>>
  /\ idx = 1
  /\ pc = "depths"
  /\ cur = NoCur
  /\ log = <<>>
  /\ decisions = <<>>
  /\ outcomes = <<>>
  /\ fail_budget = MaxFailures
  /\ phase = 0
  /\ prev_decisions = <<>>

\* One event of the history: a remote call sent (op "get", "create",
\* "update") or a MatchTable insert (op "insert").  rec is the record being
\* processed and role tells whether the event is about that record ("own")
\* or about its parent ("parent"); pkey is the NormalizedKey of the parent
\* reference of the account a payload describes (None when the payload
\* carries no parent reference), known tells whether the MatchTable held
\* pkey when the call was sent and held is the entry it held then.
Event(op, role, rec, name, payload, result, pkey) ==
  [op |-> op, role |-> role, rec |-> rec, name |-> name, payload |-> payload,
   result |-> result, pkey |-> pkey, known |-> pkey \in DOMAIN target_norm_lookup,
   held |-> IF pkey \in DOMAIN target_norm_lookup THEN target_norm_lookup[pkey]
            ELSE NoDoc]

InsertEvent(role, rec, key) == Event("insert", role, rec, key, NoDoc, "ok", None)

\* depths after one call of compute_depth_for from the top-level loop; after
\* the last call the names are grouped by depth.
DepthsComputed(r) ==
  /\ depths' = r.depths
  /\ IF idx < Len(name_to_doc)
     THEN /\ idx' = idx + 1
          /\ UNCHANGED <<pc, order>>
     ELSE /\ idx' = 1
          /\ pc' = "record"
          /\ order' = processing_order(r.depths)

\* One turn of "for nm in list(name_to_doc.keys()): compute_depth_for(nm)".
ComputeDepths ==
  /\ pc = "depths"
  /\ \E r \in {compute_depth_for(name_to_doc, name_to_doc[idx]["name"], depths, {})} :
       DepthsComputed(r)
  /\ UNCHANGED <<normVars, dry_run, max_parent_retries, name_to_doc, target, target0,
                 target_norm_lookup, cur, log, decisions, outcomes, fail_budget,
                 phase, prev_decisions>>

\* A record loop that a failed record ends.
EndRecordAborting(src_name, decs, outcome) ==
  /\ decisions' = decisions \o decs
  /\ outcomes' = Append(outcomes, <<src_name, outcome>>)
  /\ cur' = NoCur
  /\ idx' = idx + 1
  /\ pc' = IF idx < Len(order) /\ outcome # "failed" THEN "record" ELSE "done"

\* The end of one turn of the record loop: the decisions logged in it, the
\* record's terminal outcome, and the move to the next record.
EndRecord(src_name, decs, outcome) ==
  /\ decisions' = decisions \o decs
  /\ outcomes' = Append(outcomes, <<src_name, outcome>>)
  /\ cur' = NoCur
  /\ idx' = idx + 1
  /\ pc' = IF idx < Len(order) THEN "record" ELSE "done"

\* The locals of a record at its start: the stripped source document and its
\* NormalizedKey.
StartRecord(src_name, src_doc) ==
  [src_name |-> src_name, src_doc |-> src_doc,
   src_norm |-> normalize_name(
                  IF ~Falsy(Get(src_doc, "name")) THEN src_doc["name"]
                  ELSE IF ~Falsy(Get(src_doc, "account_name"))
                       THEN src_doc["account_name"] ELSE src_name),
   tgt_full |-> NoDoc, attempts |-> 0]

\* get_account answered res for the MatchTable entry called tname.
MatchFetched(c, tname, res) ==
  /\ log' = Append(log, Event("get", "own", c.src_name, tname, NoDoc, res, None))
  /\ fail_budget' = fail_budget - Spent(res, CallResults)
  /\ IF res = "raise"
     THEN EndRecord(c.src_name, <<>>, "failed")
     ELSE /\ cur' = [c EXCEPT !.tgt_full =
                       IF res = "ok" THEN TargetGet(target, tname) ELSE NoDoc]
          /\ pc' = "parent"
          /\ UNCHANGED <<idx, decisions, outcomes>>

\* The lookup of the record's key in the MatchTable and, on a hit, the fetch
\* of the full target document.
LookedUp(c) ==
  IF c.src_norm \in DOMAIN target_norm_lookup
  THEN \E res \in CallResults :
         MatchFetched(c, Get(target_norm_lookup[c.src_norm], "name"), res)
  ELSE /\ cur' = c
       /\ pc' = "parent"
       /\ UNCHANGED <<idx, decisions, outcomes, log, fail_budget>>

\* Start of a record: strip the source document, look its key up in the
\* MatchTable and, on a hit, fetch the full target document.
FetchMatch ==
  /\ pc = "record"
  /\ \E c \in {StartRecord(order[idx],
                  Without(prepare_source_doc_for_transfer(DocOf(name_to_doc, order[idx])),
                          ProtectedFields))} :
       LookedUp(c)
  /\ UNCHANGED <<runConstants, target, target_norm_lookup>>

\* A placeholder named by the parent reference without its account number.
parent_payload_unnumbered(n2d, parent, parent_src_key) ==
  IF parent_src_key # None
  THEN Only({Without(Merge(Merge([company |-> <<>>], d), [is_group |-> One]),
                     {"account_currency"}) :
               d \in {prepare_source_doc_for_transfer(DocOf(n2d, parent_src_key))}})
  ELSE [account_name |-> AccountNameOf(parent), is_group |-> One,
        parent_account |-> None, company |-> <<>>]

\* The payload a missing parent is created with: the parent's source record
\* as prepared for transfer, with is_group set to 1, company defaulted to ""
\* and account_currency popped; or, when the source has no such record, the
\* minimal group named by the stripped parent reference.
parent_payload_for(n2d, parent, parent_src_key) ==
  IF parent_src_key # None
  THEN Only({Without(Merge(Merge([company |-> <<>>], d), [is_group |-> One]),
                     {"account_currency"}) :
               d \in {prepare_source_doc_for_transfer(DocOf(n2d, parent_src_key))}})
  ELSE [account_name |-> Strip(parent), is_group |-> One,
        parent_account |-> None, company |-> <<>>]

\* A parent step that sends the create also in a dry run.
ParentCreateIsLive(dry) == TRUE

\* Whether the parent step sends its create to the target.
ParentCreateLive(dry) == ~dry

\* create_account answered res for the parent's payload.
ParentCreateAnswered(src_name, parent_norm, res, created, sent, spent) ==
  /\ fail_budget' = fail_budget - spent
  /\ CASE res = "ok" ->
            /\ target' = target \cup {created}
            /\ target_norm_lookup' = MapSet(target_norm_lookup, parent_norm, created)
            /\ log' = log \o <<sent, InsertEvent("parent", src_name, parent_norm)>>
            /\ pc' = "sync"
            /\ UNCHANGED <<idx, cur, decisions, outcomes>>
       [] res = "none" ->
            /\ cur' = [cur EXCEPT !.attempts = @ + 1]
            /\ log' = Append(log, sent)
            /\ UNCHANGED <<target, target_norm_lookup, idx, pc, decisions, outcomes>>
       [] res = "raise" ->
            /\ log' = Append(log, sent)
            /\ EndRecord(src_name, <<>>, "failed")
            /\ UNCHANGED <<target, target_norm_lookup>>

\* One turn of the retry loop: a placeholder in a dry run, else one create.
AttemptParent(src_name, parent_norm, parent_payload) ==
  IF ~ParentCreateLive(dry_run)
  THEN /\ target_norm_lookup' =
            MapSet(target_norm_lookup, parent_norm,
                   [name |-> Get(parent_payload, "account_name")])
       /\ log' = Append(log, InsertEvent("parent", src_name, parent_norm))
       /\ pc' = "sync"
       /\ UNCHANGED <<target, idx, cur, decisions, outcomes, fail_budget>>
  ELSE \E res \in CreateResults(parent_payload) :
         ParentCreateAnswered(src_name, parent_norm, res, CreatedDoc(parent_payload),
                              Event("create", "parent", src_name, None, parent_payload,
                                    res, ParentKeyOf(parent_payload)),
                              Spent(res, CreateResults(parent_payload)))

\* A retry loop that makes one attempt more than max_parent_retries.
MayRetryOnceMore(attempts, limit) == attempts <= limit

\* while not parent_created and attempts < max_parent_retries
MayRetry(attempts, limit) == attempts < limit

\* Nothing to do when the record has no parent or the MatchTable holds the
\* parent's key; else one attempt to create the parent; else, the attempts
\* exhausted, the record is skipped.
ParentEnsured(src_name, parent) ==
  IF Falsy(parent) \/ normalize_name(parent) \in DOMAIN target_norm_lookup
  THEN /\ pc' = "sync"
       /\ UNCHANGED <<target, target_norm_lookup, idx, cur, log, decisions,
                      outcomes, fail_budget>>
  ELSE IF MayRetry(cur.attempts, max_parent_retries)
  THEN \E parent_norm \in {normalize_name(parent)},
          parent_src_key \in {find_parent_in_source(name_to_doc, parent)} :
         \E parent_payload \in {parent_payload_for(name_to_doc, parent, parent_src_key)} :
           AttemptParent(src_name, parent_norm, parent_payload)
  ELSE /\ EndRecord(src_name, <<<<src_name, "skipped">>>>, "skipped")
       /\ UNCHANGED <<target, target_norm_lookup, log, fail_budget>>

\* Ensuring the parent of the current record.
EnsureParent ==
  /\ pc = "parent"
  /\ ParentEnsured(cur.src_name, Get(cur.src_doc, "parent_account"))
  /\ UNCHANGED runConstants

\* parent_in_target["name"] when the MatchTable holds an entry with a name
\* under key k, else None.
NameUnder(lookup, k) ==
  IF k \in DOMAIN lookup /\ ~Falsy(Get(lookup[k], "name")) THEN lookup[k]["name"]
  ELSE None

\* The name the MatchTable resolves a parent reference to, None when it holds
\* no entry with a name for the reference's key.
resolved_parent_name(lookup, desired_parent) ==
  NameUnder(lookup, normalize_name(desired_parent))

OrElse(v, fallback) == IF v # None THEN v ELSE fallback

\* An update payload that carries every compared field of the source record.
update_payload_all_fields(src_doc, diffs, lookup) ==
  [k \in COMPARE_FIELDS \cap DOMAIN src_doc |-> src_doc[k]]

\* The update payload: the source value of each differing field; for the
\* parent reference the resolved target name (the raw reference when it does
\* not resolve), and nothing when the source record has no parent.
update_payload_for(src_doc, diffs, lookup) ==
  [k \in {f \in DOMAIN diffs :
            f = "parent_account" => ~Falsy(Get(src_doc, "parent_account"))} |->
     IF k = "parent_account"
     THEN OrElse(resolved_parent_name(lookup, src_doc["parent_account"]),
                 src_doc["parent_account"])
     ELSE Get(src_doc, k)]

\* src_doc["parent_account"] = parent_in_target["name"], when there is one.
WithParent(src_doc, parent_name) ==
  IF parent_name # None THEN Merge(src_doc, [parent_account |-> parent_name])
  ELSE src_doc

\* A create payload that keeps the source's parent reference.
create_payload_raw(src_doc, lookup) == src_doc

\* The create payload: the stripped source document, its parent reference
\* rewritten to the resolved target name when there is one.
create_payload_for(src_doc, lookup) ==
  IF ~Falsy(Get(src_doc, "parent_account"))
  THEN WithParent(src_doc, resolved_parent_name(lookup, src_doc["parent_account"]))
  ELSE src_doc

\* The key of the parent reference a payload of the current record carries.
PayloadParentKey(payload, src_doc) ==
  IF Falsy(Get(payload, "parent_account")) THEN None ELSE ParentKeyOf(src_doc)

\* An update addressed to the source record's name.
UpdateEventToSourceName(src_name, src_doc, tname, update_payload, res, diffs) ==
  Event("update", "own", src_name, src_name, update_payload, res,
        PayloadParentKey(update_payload, src_doc))
    @@ [src_doc |-> src_doc, diffs |-> diffs]

\* The event of an update request, with the compared source document and
\* the differences the payload was built from.
UpdateEvent(src_name, src_doc, tname, update_payload, res, diffs) ==
  Event("update", "own", src_name, tname, update_payload, res,
        PayloadParentKey(update_payload, src_doc))
    @@ [src_doc |-> src_doc, diffs |-> diffs]

\* update_account answered res.
UpdateAnswered(src_name, src_doc, tname, update_payload, res, diffs) ==
  /\ log' = Append(log, UpdateEvent(src_name, src_doc, tname, update_payload, res, diffs))
  /\ fail_budget' = fail_budget - Spent(res, CallResults)
  /\ target' = IF res = "ok" THEN TargetUpdated(target, tname, update_payload)
               ELSE target
  /\ EndRecord(src_name, <<<<src_name, "update">>>>,
               IF res = "ok" THEN "done" ELSE "failed")
  /\ UNCHANGED target_norm_lookup

\* The branch "if tgt_full": update the fetched match where it differs.
UpdateMatch(src_name, src_doc, tgt_full, diffs) ==
  IF DOMAIN diffs = {}
  THEN /\ EndRecord(src_name, <<<<src_name, "noop">>>>, "done")
       /\ UNCHANGED <<target, target_norm_lookup, log, fail_budget>>
  ELSE IF dry_run
  THEN /\ EndRecord(src_name, <<<<src_name, "update">>>>, "done")
       /\ UNCHANGED <<target, target_norm_lookup, log, fail_budget>>
  ELSE \E res \in CallResults,
          update_payload \in {update_payload_for(src_doc, diffs, target_norm_lookup)} :
         UpdateAnswered(src_name, src_doc, Get(tgt_full, "name"), update_payload, res,
                        diffs)

\* create_account answered res for the record's payload.
CreateAnswered(src_name, src_norm, res, created, sent, spent) ==
  /\ fail_budget' = fail_budget - spent
  /\ IF res = "ok"
     THEN /\ target' = target \cup {created}
          /\ target_norm_lookup' = MapSet(target_norm_lookup, src_norm, created)
          /\ log' = log \o <<sent, InsertEvent("own", src_name, src_norm)>>
     ELSE /\ log' = Append(log, sent)
          /\ UNCHANGED <<target, target_norm_lookup>>
  /\ EndRecord(src_name, <<<<src_name, "create">>>>,
               IF res = "ok" THEN "done" ELSE "failed")

\* The branch "else: create": a placeholder in a dry run, else one create.
CreateMissing(src_name, src_doc, src_norm, payload) ==
  IF dry_run
  THEN /\ target_norm_lookup' =
            MapSet(target_norm_lookup, src_norm, [name |-> Get(payload, "name")])
       /\ log' = Append(log, InsertEvent("own", src_name, src_norm))
       /\ EndRecord(src_name, <<<<src_name, "create">>>>, "done")
       /\ UNCHANGED <<target, fail_budget>>
  ELSE \E res \in CreateResults(payload) :
         CreateAnswered(src_name, src_norm, res, CreatedDoc(payload),
                        Event("create", "own", src_name, None, payload, res,
                              PayloadParentKey(payload, src_doc)),
                        Spent(res, CreateResults(payload)))

\* The last step of a record: update the fetched match where it differs, or
\* create the record when no full match was fetched.
SyncRecord ==
  /\ pc = "sync"
  /\ IF cur.tgt_full # NoDoc
     THEN \E diffs \in {account_differences(cur.src_doc, cur.tgt_full)} :
            UpdateMatch(cur.src_name, cur.src_doc, cur.tgt_full, diffs)
     ELSE \E payload \in {create_payload_for(cur.src_doc, target_norm_lookup)} :
            CreateMissing(cur.src_name, cur.src_doc, cur.src_norm, payload)
  /\ UNCHANGED runConstants

Next ==
  \/ ComputeDepths
  \/ FetchMatch
  \/ EnsureParent
  \/ SyncRecord

Spec == Init /\ [][Next]_vars

\* The runs checked for termination: every inventory of fewer than MaxSrc
\* records against every target, and the inventories of MaxSrc records
\* against the empty target with a single parent attempt.
InitFair ==
  /\ Init
  /\ Len(name_to_doc) < MaxSrc \/ (target = {} /\ max_parent_retries = 1)

\* sync_all is sequential code: a step that can be taken is taken.
FairSpec == InitFair /\ [][Next]_vars /\ WF_vars(Next)

---------------------------------------------------------------------------
(* sync_all against an empty target that fails no call, over inventories   *)
(* with account numbers of several digits.                                 *)

NameA == <<"A">>
NameB == <<"1", "0", "0", "0", " ", "-", " ", "B">>
NameC == <<"2", "0", "0", "0", " ", "-", " ", "C">>
RefRoot == <<"3", "0", "0", "0", " ", "-", " ", "R", "o", "o", "t">>

CleanNames == {NameA, NameB, NameC}
\* <<"B">> names NameB by NormalizedKey only; RefRoot names no source record.
CleanParentRefs == {None, NameA, <<"B">>, RefRoot}

CleanListings ==
  UNION {{l \in [1..n -> CleanNames \X CleanParentRefs] :
            \A i, j \in 1..n : i # j => l[i][1] # l[j][1]} : n \in 1..MaxSrc}

CleanInventories == {SourceInventory(l) : l \in CleanListings}

InitClean ==
  /\ name0 = <<>>
  /\ calls = <<>>
  /\ dry_run \in BOOLEAN
  /\ max_parent_retries \in 1..MaxRetries
  /\ name_to_doc \in CleanInventories
  /\ target = {}
  /\ target0 = target
  /\ target_norm_lookup = seed_lookup(target)
  /\ depths = EmptyDict
  /\ order = <<>>
  /\ idx = 1
  /\ pc = "depths"
  /\ cur = NoCur
  /\ log = <<>>
  /\ decisions = <<>>
  /\ outcomes = <<>>
  /\ fail_budget = 0
  /\ phase = 0
  /\ prev_decisions = <<>>

SpecClean == InitClean /\ [][Next]_vars

---------------------------------------------------------------------------
(* sync_all from its first line: the two inventory fetches, then the run.  *)

\* The event of a get_all_accounts call on the source or the target.
ListEvent(role, res) == Event("list", role, None, None, NoDoc, res, None)

InitFetch ==
  /\ name0 = <<>>
  /\ calls = <<>>
  /\ dry_run \in BOOLEAN
  /\ max_parent_retries \in 1..MaxRetries
  /\ name_to_doc = <<>>
  /\ target \in TargetInventories
  /\ target0 = target
  /\ target_norm_lookup = <<>>
  /\ depths = EmptyDict
  /\ order = <<>>
  /\ idx = 1
  /\ pc = "fetch_source"
  /\ cur = NoCur
  /\ log = <<>>
  /\ decisions = <<>>
  /\ outcomes = <<>>
  /\ fail_budget = MaxFailures
  /\ phase = 0
  /\ prev_decisions = <<>>

fetchConstants ==
  <<normVars, dry_run, max_parent_retries, target, target0, depths, order, idx,
    cur, decisions, outcomes, fail_budget, phase, prev_decisions>>

\* A failed target listing that is taken for an empty listing.
InventoryFailedQuietly(role) ==
  /\ pc' = IF role = "target" THEN "depths" ELSE "raised"
  /\ UNCHANGED <<name_to_doc, target_norm_lookup>>

\* get_all_accounts logs the failure and raises again; sync_all does not
\* catch it.
InventoryFailed(role) ==
  /\ pc' = "raised"
  /\ UNCHANGED <<name_to_doc, target_norm_lookup>>

\* source_accounts = get_all_accounts(source_url, ...); the listings of the
\* run are those of fewer than MaxSrc records.
FetchSource ==
  /\ pc = "fetch_source"
  /\ \E res \in {"ok", "raise"} :
       /\ log' = Append(log, ListEvent("source", res))
       /\ IF res = "ok"
          THEN /\ \E inv \in {i \in SourceInventories : Len(i) < MaxSrc} :
                    name_to_doc' = inv
               /\ pc' = "fetch_target"
               /\ UNCHANGED target_norm_lookup
          ELSE InventoryFailed("source")
  /\ UNCHANGED fetchConstants

\* target_accounts = get_all_accounts(target_url, ...), then the seeding of
\* target_norm_lookup.
FetchTarget ==
  /\ pc = "fetch_target"
  /\ \E res \in {"ok", "raise"} :
       /\ log' = Append(log, ListEvent("target", res))
       /\ IF res = "ok"
          THEN /\ target_norm_lookup' = seed_lookup(target)
               /\ pc' = "depths"
               /\ UNCHANGED name_to_doc
          ELSE InventoryFailed("target")
  /\ UNCHANGED fetchConstants

NextFetch ==
  \/ FetchSource
  \/ FetchTarget
  \/ ComputeDepths
  \/ FetchMatch
  \/ EnsureParent
  \/ SyncRecord

SpecFetch == InitFetch /\ [][NextFetch]_vars

---------------------------------------------------------------------------
(* A dry run followed by a live run on the same inventories, against a     *)
(* target that fails no call.                                              *)

InitPair ==
  /\ name0 = <<>>
  /\ calls = <<>>
  /\ dry_run = TRUE
  /\ max_parent_retries \in 1..MaxRetries
  /\ name_to_doc \in SourceInventories
  /\ target \in TargetInventories
  /\ target0 = target
  /\ target_norm_lookup = seed_lookup(target)
  /\ depths = EmptyDict
  /\ order = <<>>
  /\ idx = 1
  /\ pc = "depths"
  /\ cur = NoCur
  /\ log = <<>>
  /\ decisions = <<>>
  /\ outcomes = <<>>
  /\ fail_budget = 0
  /\ phase = 1
  /\ prev_decisions = <<>>

\* The dry run is over: sync_all is called again with dry_run=False.  It
\* fetches the inventories anew and starts with fresh locals.
Rerun ==
  /\ pc = "done"
  /\ phase = 1
  /\ phase' = 2
  /\ dry_run' = FALSE
  /\ prev_decisions' = decisions
  /\ target_norm_lookup' = seed_lookup(target)
  /\ depths' = EmptyDict
  /\ order' = <<>>
  /\ idx' = 1
  /\ pc' = "depths"
  /\ cur' = NoCur
  /\ log' = <<>>
  /\ decisions' = <<>>
  /\ outcomes' = <<>>
  /\ UNCHANGED <<normVars, max_parent_retries, name_to_doc, target, target0, fail_budget>>

NextPair ==
  \/ ComputeDepths
  \/ FetchMatch
  \/ EnsureParent
  \/ SyncRecord
  \/ Rerun

PairSpec == InitPair /\ [][NextPair]_vars

---------------------------------------------------------------------------
(* Two runs of sync_all with the same arguments against the same target,   *)
(* the source inventory of the second differing from that of the first in  *)
(* protected fields only.                                                  *)

InitVary ==
  /\ name0 = <<>>
  /\ calls = <<>>
  /\ dry_run \in BOOLEAN
  /\ max_parent_retries \in 1..MaxRetries
  /\ name_to_doc \in {i \in SourceInventories : Len(i) < MaxSrc}
  /\ target \in TargetInventories
  /\ target0 = target
  /\ target_norm_lookup = seed_lookup(target)
  /\ depths = EmptyDict
  /\ order = <<>>
  /\ idx = 1
  /\ pc = "depths"
  /\ cur = NoCur
  /\ log = <<>>
  /\ decisions = <<>>
  /\ outcomes = <<>>
  /\ fail_budget = MaxFailures - 1
  /\ phase = 1
  /\ prev_decisions = <<>>

\* The first run is over; its decisions and its history are kept.  The
\* second run finds the target as the first found it, and a source in which
\* the records have other balances or have lost their balance and currency.
RerunRevalued ==
  /\ pc = "done"
  /\ phase = 1
  /\ phase' = 2
  /\ prev_decisions' = <<decisions, log>>
  /\ \/ name_to_doc' =
          [k \in 1..Len(name_to_doc) |->
             Merge(name_to_doc[k], [balance |-> <<"0">>, total_debit |-> <<"3">>,
                                    total_credit |-> <<"4">>,
                                    account_currency |-> <<"E">>])]
     \/ name_to_doc' =
          [k \in 1..Len(name_to_doc) |-> Without(name_to_doc[k], ProtectedFields)]
  /\ target' = target0
  /\ target_norm_lookup' = seed_lookup(target0)
  /\ fail_budget' = MaxFailures - 1
  /\ depths' = EmptyDict
  /\ order' = <<>>
  /\ idx' = 1
  /\ pc' = "depths"
  /\ cur' = NoCur
  /\ log' = <<>>
  /\ decisions' = <<>>
  /\ outcomes' = <<>>
  /\ UNCHANGED <<normVars, dry_run, max_parent_retries, target0>>

NextVary ==
  \/ ComputeDepths
  \/ FetchMatch
  \/ EnsureParent
  \/ SyncRecord
  \/ RerunRevalued

SpecVary == InitVary /\ [][NextVary]_vars

---------------------------------------------------------------------------
(* Depth computation call by call: the loop over the source names and the  *)
(* recursion of sync_all.compute_depth_for and of compute_depths.depth,    *)
(* one call or one return per step.  cur holds the function that runs, the *)
(* pending calls (innermost last), the visited/stack set and the value the *)
(* last finished call returned.                                            *)

MaxDepthSrc == 3
\* The recursion limit of the interpreter, as far as the model follows it.
MaxStack == 5

DepthNames == SrcNames \cup {<<"C">>}
DepthParentRefs == ParentRefs \cup {<<"C">>, <<"1", " ", "B">>}

DepthListings ==
  UNION {{l \in [1..n -> DepthNames \X DepthParentRefs] :
            \A i, j \in 1..n : i # j => l[i][1] # l[j][1]} : n \in 1..MaxDepthSrc}

DepthInventories == {SourceInventory(l) : l \in DepthListings}

DepthFunctions == {"compute_depth_for", "compute_depths"}

DepthCur(fn, frames, visited, ret) ==
  [fn |-> fn, frames |-> frames, visited |-> visited, ret |-> ret]

depthConstants ==
  <<normVars, dry_run, max_parent_retries, name_to_doc, target, target0,
    target_norm_lookup, order, log, decisions, outcomes, fail_budget, phase,
    prev_decisions>>

InitDepths ==
  /\ name0 = <<>>
  /\ calls = <<>>
  /\ dry_run = FALSE
  /\ max_parent_retries = 0
  /\ name_to_doc \in DepthInventories
  /\ target = {}
  /\ target0 = {}
  /\ target_norm_lookup = <<>>
  /\ depths = EmptyDict
  /\ order = <<>>
  /\ idx = 1
  /\ pc = "d_loop"
  /\ \E fn \in DepthFunctions : cur = DepthCur(fn, <<>>, {}, 0)
  /\ log = <<>>
  /\ decisions = <<>>
  /\ outcomes = <<>>
  /\ fail_budget = 0
  /\ phase = 0
  /\ prev_decisions = <<>>

\* The last pending call, and the pending calls without it.
TopFrame(frames) == frames[Len(frames)]
Popped(frames) == SubSeq(frames, 1, Len(frames) - 1)

\* A call returns d after depths[name] = d; compute_depths.depth also takes
\* name off its stack when remove says so.
DepthReturned(name, d, visited, remove) ==
  /\ depths' = DictSet(depths, name, d)
  /\ cur' = DepthCur(cur.fn, Popped(cur.frames),
                     IF remove /\ cur.fn = "compute_depths" THEN visited \ {name}
                     ELSE visited,
                     d)
  /\ pc' = "d_ret"

\* for nm in list(name_to_doc.keys()): compute_depth_for(nm), and
\* for n in list(name_to_doc.keys()): if n not in depths: depth(n).
DepthLoop ==
  /\ pc = "d_loop"
  /\ IF idx > Len(name_to_doc)
     THEN /\ pc' = "d_done"
          /\ UNCHANGED <<idx, cur>>
     ELSE IF cur.fn = "compute_depths" /\ name_to_doc[idx]["name"] \in DOMAIN depths.val
     THEN /\ idx' = idx + 1
          /\ UNCHANGED <<pc, cur>>
     ELSE /\ cur' = DepthCur(cur.fn, <<name_to_doc[idx]["name"]>>, {}, 0)
          /\ pc' = "d_call"
          /\ UNCHANGED idx
  /\ UNCHANGED <<depthConstants, depths>>

\* A cycle guard that never fires.
OnPathNever(name, visited) == FALSE

\* if name in visited / if name in stack
OnPath(name, visited) == name \in visited

\* The depth of a record whose parent is in no source record: as a root.
OrphanAsRoot(name, visited) == DepthReturned(name, 0, visited, TRUE)

\* parent not present in source: depths[name] = 1; return 1
Orphan(name, visited) == DepthReturned(name, 1, visited, TRUE)

\* The body of one call up to its return or its recursive call.
DepthEntered(name, parent_key) ==
  IF name \in DOMAIN depths.val
  THEN /\ cur' = DepthCur(cur.fn, Popped(cur.frames), cur.visited, depths.val[name])
       /\ pc' = "d_ret"
       /\ UNCHANGED depths
  ELSE IF OnPath(name, cur.visited)
  THEN DepthReturned(name, 0, cur.visited, FALSE)
  ELSE IF ~HasDoc(name_to_doc, name) \/ Falsy(ParentOf(name_to_doc, name))
  THEN DepthReturned(name, 0, cur.visited \cup {name}, TRUE)
  ELSE IF parent_key = None
  THEN Orphan(name, cur.visited \cup {name})
  ELSE /\ Len(cur.frames) < MaxStack
       /\ cur' = DepthCur(cur.fn, Append(cur.frames, parent_key),
                          cur.visited \cup {name}, cur.ret)
       /\ UNCHANGED <<pc, depths>>

DepthCall ==
  /\ pc = "d_call"
  /\ \E name \in {TopFrame(cur.frames)} :
       \E parent_key \in {IF Falsy(ParentOf(name_to_doc, name)) THEN None
                          ELSE find_parent_in_source(name_to_doc,
                                                     ParentOf(name_to_doc, name))} :
         DepthEntered(name, parent_key)
  /\ UNCHANGED <<depthConstants, idx>>

\* A call has returned cur.ret: to the loop, or to the call that made it,
\* which does d = 1 + that value; depths[name] = d; return d.
DepthReturn ==
  /\ pc = "d_ret"
  /\ IF cur.frames = <<>>
     THEN /\ idx' = idx + 1
          /\ pc' = "d_loop"
          /\ UNCHANGED <<cur, depths>>
     ELSE /\ DepthReturned(TopFrame(cur.frames), 1 + cur.ret, cur.visited, TRUE)
          /\ UNCHANGED idx
  /\ UNCHANGED depthConstants

NextDepths ==
  \/ DepthLoop
  \/ DepthCall
  \/ DepthReturn

SpecDepths == InitDepths /\ [][NextDepths]_vars

\* The interpreter runs a call that can run.
FairDepths == SpecDepths /\ WF_vars(NextDepths)

---------------------------------------------------------------------------
(* The comparison harness: account_differences applied to a prepared       *)
(* source record and itself, and to the record and a copy with one field   *)
(* changed.                                                                *)

\* Source records as the listing returns them: every name and parent
\* reference of the inventories, is_group and account_type set, empty or
\* None, with or without a parent_account key.
DiffValues == {None, <<>>}
DiffDocs ==
  UNION {{d, Without(d, {"parent_account"})} :
           d \in {StoreDoc(n, p, g, t, <<"9">>) :
                    n \in DepthNames, p \in DepthParentRefs \cup {<<>>},
                    g \in {Zero, One, None}, t \in {TypeX} \cup DiffValues}}

InitDiff ==
  /\ name0 = <<>>
  /\ calls = <<>>
  /\ dry_run = FALSE
  /\ max_parent_retries = 0
  /\ name_to_doc \in {<<d>> : d \in DiffDocs}
  /\ target = {}
  /\ target0 = {}
  /\ target_norm_lookup = <<>>
  /\ depths = EmptyDict
  /\ order = <<>>
  /\ idx = 0
  /\ pc = "diff"
  /\ cur = NoCur
  /\ log = <<>>
  /\ decisions = <<>>
  /\ outcomes = <<>>
  /\ fail_budget = 0
  /\ phase = 0
  /\ prev_decisions = <<>>

DiffCall(x, y, how) ==
  /\ calls' = <<[src |-> x, tgt |-> y, res |-> account_differences(x, y), how |-> how]>>
  /\ pc' = "diff_done"
  /\ UNCHANGED <<name0, dry_run, max_parent_retries, name_to_doc, target, target0,
                 target_norm_lookup, depths, order, idx, cur, log, decisions,
                 outcomes, fail_budget, phase, prev_decisions>>

\* account_differences(x, x)
DiffSelf ==
  /\ pc = "diff"
  /\ \E x \in {prepare_source_doc_for_transfer(name_to_doc[1])} :
       DiffCall(x, x, "self")

\* account_differences(x, y), y being x with another account_type.
DiffChanged ==
  /\ pc = "diff"
  /\ \E x \in {prepare_source_doc_for_transfer(name_to_doc[1])} :
       DiffCall(x, Merge(x, [account_type |-> TypeY]), "changed")

\* Target documents to compare x with: x with another parent reference
\* (a name, a blank, empty, None or no key at all), group flag and type.
DiffTargets(x) ==
  UNION {{y, Without(y, {"parent_account"})} :
           y \in {Merge(x, [parent_account |-> p, is_group |-> g, account_type |-> t]) :
                    p \in DepthParentRefs \cup {<<>>, <<" ">>},
                    g \in {Zero, One, None},
                    t \in {TypeX, TypeY} \cup DiffValues}}

\* account_differences(x, y) for a target document y.
DiffPair ==
  /\ pc = "diff"
  /\ \E x \in {prepare_source_doc_for_transfer(name_to_doc[1])} :
       \E y \in DiffTargets(x) : DiffCall(x, y, "pair")

NextDiff ==
  \/ DiffSelf
  \/ DiffChanged
  \/ DiffPair

SpecDiff == InitDiff /\ [][NextDiff]_vars

---------------------------------------------------------------------------
(* The async variant (sync_accounts.py): one fetch_and_sync task per       *)
(* source account, all running at once on one event loop and sharing       *)
(* target_lookup.  A task runs from one network call to the next without   *)
(* interruption; cur[t] holds the position and the locals of task t, and   *)
(* a request is logged when it is sent.                                    *)

MaxTasks == 3

\* normalize_name of sync_accounts.py: the text after the first "-" when
\* only digits stand before it, else the stripped name.
async_normalize_name(name) ==
  IF Falsy(name) THEN <<>>
  ELSE IF \E i \in 1..Len(name) : name[i] = "-"
  THEN LET d == CHOOSE i \in 1..Len(name) :
                  name[i] = "-" /\ \A j \in 1..(i - 1) : name[j] # "-"
           head == Strip(SubSeq(name, 1, d - 1))
       IN IF head # <<>> /\ \A j \in 1..Len(head) : head[j] \in Digits
          THEN Strip(SubSeq(name, d + 1, Len(name)))
          ELSE Strip(name)
  ELSE Strip(name)

compare_accounts(src, tgt) ==
  LET Val(doc, f) == IF f = "parent_account" /\ ~Falsy(Get(doc, f))
                     THEN async_normalize_name(doc[f]) ELSE Get(doc, f)
  IN [f \in {g \in COMPARE_FIELDS : Val(src, g) # Val(tgt, g)} |->
        <<Get(src, f), Get(tgt, f)>>]

\* The source listing: the first accounts of B, C, A, D, each without parent or
\* with parent reference "A" or "1-A"; the target holds nothing, the parent
\* or a child.
AsyncInventories ==
  {[i \in 1..n |-> StoreDoc(<<<<"B">>, <<"C">>, <<"A">>, <<"D">>>>[i], p[i], Zero, TypeX, <<"9">>)] :
     <<n, p>> \in UNION {{<<m, q>> : q \in [1..m -> {None, <<"A">>, <<"1", "-", "A">>}]} :
                          m \in 1..MaxTasks}}

\* main up to the start of the tasks: target_lookup holds the listed name
\* under its key (the names alone are listed), and every task has sent the
\* GET of its source document.
InitAsync ==
  /\ name0 = <<>>
  /\ calls = <<>>
  /\ dry_run \in BOOLEAN
  /\ max_parent_retries = 0
  /\ name_to_doc \in AsyncInventories
  /\ target \in {{}, {StoreDoc(<<"1", "-", "A">>, None, One, TypeX, <<"5">>)},
                 {StoreDoc(<<"B">>, <<"A">>, Zero, TypeY, <<"5">>)}}
  /\ target0 = target
  /\ target_norm_lookup =
       [k \in {async_normalize_name(d["name"]) : d \in target} |->
          [str |-> (CHOOSE d \in target : async_normalize_name(d["name"]) = k)["name"]]]
  /\ depths = EmptyDict
  /\ order = <<>>
  /\ idx = 0
  /\ pc = "tasks"
  /\ cur = [t \in 1..Len(name_to_doc) |-> [at |-> "source_get", src_doc |-> NoDoc]]
  /\ log = <<>>
  /\ decisions = <<>>
  /\ outcomes = <<>>
  /\ fail_budget \in {0, 1}
  /\ phase = 0
  /\ prev_decisions = <<>>

asyncConstants ==
  <<normVars, dry_run, max_parent_retries, name_to_doc, target0, depths, order, idx,
    pc, outcomes, phase, prev_decisions>>

\* Task t goes on at the call at with the document doc.
Resumed(t, at, doc) == cur' = [cur EXCEPT ![t] = [at |-> at, src_doc |-> doc]]

\* ensure_parent up to its first await: the name target_lookup holds for the
\* parent's key; else, in a dry run, the key is recorded and returned; else
\* the POST of the minimal group is sent.  With a parent ensured,
\* sync_account sets it in the document and sends the GET of the target
\* document.
ensure_parent(t, doc, parent_name, norm_parent) ==
  IF norm_parent \in DOMAIN target_norm_lookup
  THEN /\ Resumed(t, "target_get",
                  Merge(doc, [parent_account |->
                                IF "name" \in DOMAIN target_norm_lookup[norm_parent]
                                THEN target_norm_lookup[norm_parent]["name"]
                                ELSE norm_parent]))
       /\ UNCHANGED <<target_norm_lookup, log>>
  ELSE IF dry_run
  THEN /\ target_norm_lookup' = MapSet(target_norm_lookup, norm_parent, [str |-> norm_parent])
       /\ Resumed(t, "target_get", Merge(doc, [parent_account |-> norm_parent]))
       /\ UNCHANGED log
  ELSE /\ Resumed(t, "parent_post", doc)
       /\ log' = Append(log, Event("create", "parent", doc["name"], norm_parent,
                                   [account_name |-> norm_parent, is_group |-> One,
                                    root_type |-> <<"Asset">>, account_type |-> <<>>,
                                    parent_account |-> None, company |-> <<>>],
                                   "sent", None))
       /\ UNCHANGED target_norm_lookup

\* fetch_and_sync resumed by the answer to the source GET: without a
\* document the task ends; else the bookkeeping fields are popped and
\* sync_account runs up to its first network call.
SourceFetched ==
  /\ pc = "tasks"
  /\ \E t \in 1..Len(cur), res \in {"ok"} \cup (Faults \ {"raise"}) :
       /\ cur[t].at = "source_get"
       /\ fail_budget' = fail_budget - Spent(res, CallResults)
       /\ IF res # "ok"
          THEN /\ Resumed(t, "done", NoDoc)
               /\ UNCHANGED <<target_norm_lookup, log>>
          ELSE \E doc \in {Without(name_to_doc[t],
                                   {"account_currency", "balance", "total_debit",
                                    "total_credit", "creation", "modified", "modified_by",
                                    "owner", "idx", "docstatus"})} :
                 IF Falsy(Get(doc, "parent_account"))
                 THEN /\ Resumed(t, "target_get", doc)
                      /\ UNCHANGED <<target_norm_lookup, log>>
                 ELSE ensure_parent(t, doc, doc["parent_account"],
                                    async_normalize_name(doc["parent_account"]))
  /\ UNCHANGED <<asyncConstants, target, decisions>>

\* ensure_parent resumed by the answer to its POST: the created document is
\* recorded under the parent's key and its name returned; without one the
\* account is skipped.
ParentPosted ==
  /\ pc = "tasks"
  /\ \E t \in 1..Len(cur) :
       /\ cur[t].at = "parent_post"
       /\ \E sent \in {log[CHOOSE i \in 1..Len(log) :
                             log[i].op = "create" /\ log[i].role = "parent"
                             /\ log[i].rec = cur[t].src_doc["name"]]} :
            \E res \in CreateResults(sent.payload) \ {"raise"} :
              /\ fail_budget' = fail_budget - Spent(res, CreateResults(sent.payload))
              /\ IF res = "ok"
                 THEN /\ target' = target \cup {CreatedDoc(sent.payload)}
                      /\ target_norm_lookup' =
                           MapSet(target_norm_lookup, sent.name, CreatedDoc(sent.payload))
                      /\ log' = Append(log, InsertEvent("parent", sent.rec, sent.name))
                      /\ Resumed(t, "target_get",
                                 Merge(cur[t].src_doc,
                                       [parent_account |-> CreatedDoc(sent.payload)["name"]]))
                 ELSE /\ Resumed(t, "done", cur[t].src_doc)
                      /\ log' = Append(log, Event("failed", "parent", sent.rec, sent.name,
                                                  NoDoc, res, None))
                      /\ UNCHANGED <<target, target_norm_lookup>>
  /\ UNCHANGED <<asyncConstants, decisions>>

\* sync_account resumed by the answer to the target GET: update, skip or
\* create, and the PUT or POST sent unless in a dry run.
TargetFetched ==
  /\ pc = "tasks"
  /\ \E t \in 1..Len(cur), res \in {"ok"} \cup (Faults \ {"raise"}) :
       /\ cur[t].at = "target_get"
       /\ fail_budget' = fail_budget - Spent(res, CallResults)
       /\ \E doc \in {cur[t].src_doc},
             tgt_doc \in {IF res = "ok" THEN TargetGet(target, cur[t].src_doc["name"])
                          ELSE NoDoc} :
            \E diffs \in {compare_accounts(doc, tgt_doc)} :
              \E op \in {IF tgt_doc = NoDoc THEN "create"
                         ELSE IF DOMAIN diffs # {} THEN "update" ELSE "noop"} :
                /\ decisions' = Append(decisions, <<doc["name"], op>>)
                /\ IF dry_run \/ op = "noop"
                   THEN /\ Resumed(t, "done", doc)
                        /\ UNCHANGED log
                   ELSE /\ Resumed(t, "write", doc)
                        /\ log' = Append(log,
                             Event(op, "own", doc["name"], doc["name"],
                                   IF op = "create" THEN doc
                                   ELSE [f \in DOMAIN diffs |-> doc[f]],
                                   "sent", None))
  /\ UNCHANGED <<asyncConstants, target, target_norm_lookup>>

\* sync_account resumed by the answer to its PUT or POST; the answer is not
\* looked at.
Written ==
  /\ pc = "tasks"
  /\ \E t \in 1..Len(cur) :
       /\ cur[t].at = "write"
       /\ \E sent \in {log[CHOOSE i \in 1..Len(log) :
                             log[i].role = "own" /\ log[i].rec = cur[t].src_doc["name"]]} :
            \E res \in (IF sent.op = "create" THEN CreateResults(sent.payload)
                        ELSE CallResults) \ {"raise"} :
              /\ fail_budget' = fail_budget -
                   Spent(res, IF sent.op = "create" THEN CreateResults(sent.payload)
                              ELSE CallResults)
              /\ target' = IF res # "ok" THEN target
                           ELSE IF sent.op = "create"
                           THEN target \cup {CreatedDoc(sent.payload)}
                           ELSE TargetUpdated(target, sent.name, sent.payload)
       /\ Resumed(t, "done", cur[t].src_doc)
  /\ UNCHANGED <<asyncConstants, target_norm_lookup, log, decisions>>

NextAsync ==
  \/ SourceFetched
  \/ ParentPosted
  \/ TargetFetched
  \/ Written

SpecAsync == InitAsync /\ [][NextAsync]_vars

---------------------------------------------------------------------------
(* Claims about normalize_name, checked under SpecNorm. *)

\* s starts with a digit run followed by a separator.
StartsWithNumericPrefix(s) ==
  \E b \in 1..(Len(s) - 1) : (\A i \in 1..b : s[i] \in Digits) /\ s[b + 1] \in Separators

\* C8: normalize_name is idempotent: normalizing the key of any name gives
\* that key back.
C8_NormalizeIdempotent ==
  \A i \in 1..Len(calls) :
    calls[i].how = "again" => calls[i].res = calls[i].arg

PrefixTransparent(n) ==
  LET t == Strip(n)
  IN /\ t # <<>>
     /\ ~IsSeparator(t[1])
     /\ \A i \in 1..Len(t) : t[i] # "\n"
     /\ ~StartsWithNumericPrefix(t)

---------------------------------------------------------------------------
(* Claims about sync_all, checked under Spec. *)

\* The positions of the create and update requests in the history.
Sent == {i \in 1..Len(log) : log[i].op \in {"create", "update"}}

\* The positions of the remote calls in the history.
RemoteCalls == {i \in 1..Len(log) : log[i].op \in {"get", "create", "update"}}

Depth(name) == depths.val[name]

Records == {name_to_doc[k]["name"] : k \in 1..Len(name_to_doc)}

\* C1: in a live run, whenever a create or update request is sent for an
\* account whose payload carries a parent reference, the MatchTable holds the
\* NormalizedKey of that parent at the moment the request is sent.
C1_ParentKnownWhenSent ==
  ~dry_run => \A i \in Sent : log[i].pkey # None => log[i].known

\* C2: records are processed in ascending depth order: every remote call and
\* MatchTable insert made for a record comes before every remote call made
\* for a record of greater depth.
C2_AscendingDepthOrder ==
  \A i, j \in 1..Len(log) :
    (Depth(log[i].rec) < Depth(log[j].rec) /\ j \in RemoteCalls) => i < j

\* A finished run in which records of two depths both made remote calls and
\* a record of depth 2 was processed.
C2_Witness ==
  /\ pc = "done"
  /\ \E i, j \in RemoteCalls : Depth(log[i].rec) < Depth(log[j].rec)
  /\ \E r \in Records : Depth(r) = 2

\* C3: no protected field is a key of any payload sent to the target.
C3_ProtectedFieldsNeverSent ==
  \A i \in Sent : DOMAIN log[i].payload \cap ProtectedFields = {}

\* A run that sent a record's own create, a parent payload built from a
\* source record, a placeholder parent payload and an update, from source
\* records that carry a balance.
C3_Witness ==
  /\ \E i \in Sent : log[i].op = "create" /\ log[i].role = "own"
  /\ \E i \in Sent : log[i].role = "parent" /\ "name" \in DOMAIN log[i].payload
  /\ \E i \in Sent : log[i].role = "parent" /\ "name" \notin DOMAIN log[i].payload
  /\ \E i \in Sent : log[i].op = "update" /\ DOMAIN log[i].payload # {}
  /\ \A k \in 1..Len(name_to_doc) : "balance" \in DOMAIN name_to_doc[k]

\* C4: a dry run sends no create and no update request, and the target
\* store keeps the content it had at the start.
C4_DryRunSendsNothing ==
  dry_run => (Sent = {} /\ target = target0)

\* A finished dry run that decided a create and an update and stood in for a
\* missing parent.
C4_Witness ==
  /\ dry_run
  /\ pc = "done"
  /\ \E i \in 1..Len(decisions) : decisions[i][2] = "create"
  /\ \E i \in 1..Len(decisions) : decisions[i][2] = "update"
  /\ \E i \in 1..Len(log) : log[i].op = "insert" /\ log[i].role = "parent"

\* How often a name stands in the outcomes.
TimesProcessed(name) ==
  Cardinality({i \in 1..Len(outcomes) : outcomes[i][1] = name})

\* Every source record has exactly one terminal outcome.
EachProcessedOnce ==
  /\ Len(outcomes) = Len(name_to_doc)
  /\ \A r \in Records : TimesProcessed(r) = 1
  /\ \A i \in 1..Len(outcomes) : outcomes[i][2] \in {"done", "skipped", "failed"}

\* C6: sync_all terminates, no record is ever processed twice, and when it
\* ends every source record has exactly one terminal outcome, whatever
\* failed on the way.
C6_TerminatesEachRecordOnce ==
  /\ <>(pc = "done" /\ EachProcessedOnce)
  /\ [](\A r \in Records : TimesProcessed(r) <= 1)

\* A finished run in which a record failed on an exception, a later record
\* was skipped and a still later record was done.
C6_Witness ==
  /\ pc = "done"
  /\ EachProcessedOnce
  /\ \E i, j, k \in 1..Len(outcomes) :
       /\ i < k
       /\ j < k
       /\ outcomes[i][2] = "failed"
       /\ outcomes[j][2] = "skipped"
       /\ outcomes[k][2] = "done"
  /\ \E i \in 1..Len(log) : log[i].result = "raise"

\* The positions of the create requests sent for the parent of record rec.
ParentCreates(rec) ==
  {i \in Sent : log[i].role = "parent" /\ log[i].rec = rec}

\* The positions in outcomes of the skipped records.
SkippedAt == {i \in 1..Len(outcomes) : outcomes[i][2] = "skipped"}

\* C7: at most max_parent_retries create requests are sent for the missing
\* parent of a record; a record is skipped only after that many have all
\* failed, and then no create or update request has been sent for the record
\* itself, nothing has been inserted into the MatchTable on its behalf, and
\* the run goes on to the next record.
C7_BoundedParentRetries ==
  /\ \A r \in Records : Cardinality(ParentCreates(r)) <= max_parent_retries
  /\ \A s \in SkippedAt :
       /\ Cardinality(ParentCreates(outcomes[s][1])) = max_parent_retries
       /\ \A i \in ParentCreates(outcomes[s][1]) : log[i].result = "none"
       /\ \A i \in 1..Len(log) :
            log[i].rec = outcomes[s][1] => log[i].op = "get" \/ i \in ParentCreates(log[i].rec)
       /\ (pc = "done" /\ s < Len(order)) => Len(outcomes) > s

\* A finished live run that sent two creates for a missing parent, skipped
\* the record when both had failed, and processed the next record.
C7_Witness ==
  /\ pc = "done"
  /\ max_parent_retries = 2
  /\ \E s \in SkippedAt :
       /\ Cardinality(ParentCreates(outcomes[s][1])) = 2
       /\ s < Len(outcomes)
       /\ outcomes[s + 1][2] = "done"

\* The source record the parent reference of record name resolves to, None
\* when name has no parent reference or it resolves to no source record.
ParentRecord(name) ==
  IF Falsy(ParentOf(name_to_doc, name)) THEN None
  ELSE find_parent_in_source(name_to_doc, ParentOf(name_to_doc, name))

\* The k-th record up the parent chain of name, None when the chain ends
\* before.
RECURSIVE Ancestor(_, _)
Ancestor(name, k) ==
  IF k = 0 THEN name
  ELSE IF name = None THEN None
  ELSE Ancestor(ParentRecord(name), k - 1)

\* The parent chain of name leads back to name.
OnCycle(name) == \E k \in 1..Len(name_to_doc) : Ancestor(name, k) = name

\* C10 as claimed: in the finished depth map every record without a parent
\* reference has depth 0 and every record whose parent reference resolves to
\* a source record is one deeper than that record.
C10_DepthIsParentPlusOne_AsClaimed ==
  pc # "depths" =>
    \A r \in Records :
      /\ Falsy(ParentOf(name_to_doc, r)) => Depth(r) = 0
      /\ ParentRecord(r) # None => Depth(r) = Depth(ParentRecord(r)) + 1

\* C10 amended: in the finished depth map every record without a parent
\* reference has depth 0, and every record whose parent reference resolves
\* to a source record and whose parent chain does not lead back to the
\* record itself is one deeper than that record.
C10_DepthIsParentPlusOne ==
  pc # "depths" =>
    \A r \in Records :
      /\ Falsy(ParentOf(name_to_doc, r)) => Depth(r) = 0
      /\ (ParentRecord(r) # None /\ ~OnCycle(r)) => Depth(r) = Depth(ParentRecord(r)) + 1

\* A finished depth map, no record on a cycle, in which a record of depth 2
\* has a parent reference that resolves by NormalizedKey only, to a record of
\* depth 1.
C10_Witness ==
  /\ pc = "record"
  /\ \A r \in Records : ~OnCycle(r)
  /\ \E r \in Records :
       /\ ParentRecord(r) # None
       /\ ParentRecord(r) # ParentOf(name_to_doc, r)
       /\ Depth(ParentRecord(r)) = 1
       /\ Depth(r) = 2

---------------------------------------------------------------------------
(* Claims about depth computation, checked call by call under SpecDepths   *)
(* and FairDepths for both depth functions.                                *)

\* The records of the parent cycle record name lies on.
CycleOf(name) == {Ancestor(name, k) : k \in 1..Len(name_to_doc)}

\* The parent reference of name is not empty and resolves to no source record.
IsOrphan(name) == ~Falsy(ParentOf(name_to_doc, name)) /\ ParentRecord(name) = None

\* C11: when depth computation is over, every record whose non-empty parent
\* reference matches no source record, by name or by NormalizedKey, has a
\* depth, and it is 1.
C11_OrphanDepthOne ==
  pc = "d_done" =>
    \A r \in Records :
      IsOrphan(r) => (r \in DOMAIN depths.val /\ depths.val[r] = 1)

\* A finished depth computation with an orphan and a record below it.
C11_Witness ==
  /\ pc = "d_done"
  /\ \E r, c \in Records :
       /\ IsOrphan(r)
       /\ depths.val[r] = 1
       /\ ParentRecord(c) = r
       /\ depths.val[c] = 2

\* C12: when depth computation is over, every parent cycle of the source set
\* has a member of depth 0.
C12_CycleMemberAtDepthZero ==
  pc = "d_done" =>
    \A r \in Records :
      OnCycle(r) => \E m \in CycleOf(r) : depths.val[m] = 0

\* C13: depth computation ends with a depth for every record, and the
\* recursion never goes deeper than one call per record and one more.
C13_DepthsTerminate ==
  /\ <>(pc = "d_done" /\ \A r \in Records : r \in DOMAIN depths.val)
  /\ [](pc \in {"d_call", "d_ret"} => Len(cur.frames) <= Len(name_to_doc) + 1)

\* A finished depth computation over a cycle of three records.
C13_Witness ==
  /\ pc = "d_done"
  /\ \A r \in Records : r \in DOMAIN depths.val
  /\ \E r \in Records :
       /\ Ancestor(r, 3) = r
       /\ Ancestor(r, 1) # r
       /\ Ancestor(r, 2) # r

---------------------------------------------------------------------------
(* Claim about account_differences, checked under SpecDiff. *)

\* C14: account_differences of a prepared record and itself is the empty
\* mapping.
C14_DiffReflexive ==
  \A i \in 1..Len(calls) : calls[i].how = "self" => DOMAIN calls[i].res = {}

\* A prepared record with a numbered, capitalised parent reference compared
\* with itself.
C14_Witness ==
  /\ Len(calls) = 1
  /\ calls[1].how = "self"
  /\ calls[1].src = calls[1].tgt
  /\ Get(calls[1].src, "parent_account") = <<"1", " ", "B">>
  /\ DOMAIN calls[1].res = {}

---------------------------------------------------------------------------
(* Claims about the payloads sync_all sends, checked under Spec. *)

\* The positions of the update requests sent.
Updates == {i \in 1..Len(log) : log[i].op = "update"}

\* C15: every update payload holds only fields account_differences reported,
\* each field other than the parent reference with the source record's
\* value, and when account_type is the only difference the payload is
\* exactly account_type with the source value.
C15_UpdateSendsOnlyChanges ==
  \A i \in Updates :
    /\ DOMAIN log[i].payload \subseteq DOMAIN log[i].diffs
    /\ \A k \in DOMAIN log[i].payload \ {"parent_account"} :
         log[i].payload[k] = Get(log[i].src_doc, k)
    /\ DOMAIN log[i].diffs = {"account_type"}
         => log[i].payload = [account_type |-> log[i].src_doc["account_type"]]

\* An update sent for a record that differs from its match in account_type
\* only, and an update sent for a record that differs in several fields.
C15_Witness ==
  /\ \E i \in Updates :
       /\ DOMAIN log[i].diffs = {"account_type"}
       /\ log[i].payload = [account_type |-> TypeX]
  /\ \E i \in Updates : Cardinality(DOMAIN log[i].diffs) > 1

\* The positions of the create and update requests sent for a record itself.
OwnRequests == {i \in Sent : log[i].role = "own"}

\* C16: in a live run, a parent reference in a record's own create or update
\* payload is the name of the entry the MatchTable held under the key of the
\* source's parent reference when the request was sent, whenever it held one.
C16_ParentSentAsTargetName ==
  ~dry_run =>
    \A i \in OwnRequests :
      (~Falsy(Get(log[i].payload, "parent_account")) /\ log[i].known)
        => log[i].payload["parent_account"] = Get(log[i].held, "name")

\* A live run that sent a create and an update, each with a parent reference
\* that is the target's name of the parent and not the source's string.
C16_Witness ==
  /\ ~dry_run
  /\ \E i, j \in OwnRequests :
       /\ log[i].op = "create"
       /\ log[j].op = "update"
       /\ \A k \in {i, j} :
            /\ log[k].known
            /\ log[k].payload["parent_account"] = log[k].held["name"]
            /\ log[k].payload["parent_account"]
                 # ParentOf(name_to_doc, log[k].rec)

---------------------------------------------------------------------------
(* Claims about runs against an empty target that fails no call, checked   *)
(* under SpecClean.                                                        *)

\* The positions of the create requests sent with the source name r.
CreatesOf(r) ==
  {i \in Sent : log[i].op = "create" /\ Get(log[i].payload, "name") = r}

AllAccepted == \A i \in 1..Len(log) : log[i].result = "ok"
Acyclic == \A r \in Records : ~OnCycle(r)
DistinctKeys ==
  \A r1, r2 \in Records : r1 # r2 => normalize_name(r1) # normalize_name(r2)
AllResolve ==
  \A r \in Records : Falsy(ParentOf(name_to_doc, r)) \/ ParentRecord(r) # None

\* A finished live run against an empty target that accepted every request,
\* over an acyclic source with distinct NormalizedKeys.
CleanRun ==
  /\ ~dry_run
  /\ pc = "done"
  /\ target0 = {}
  /\ AllAccepted
  /\ Acyclic
  /\ DistinctKeys

\* Record r was created exactly once, as itself, and a record with a parent
\* reference was created after a create whose returned name it carries as
\* parent.
CreatedOnceAfterSomeParent(r) ==
  \E i \in CreatesOf(r) :
    /\ CreatesOf(r) = {i}
    /\ log[i].role = "own"
    /\ log[i].rec = r
    /\ ~Falsy(ParentOf(name_to_doc, r)) =>
         \E j \in 1..(i - 1) :
           /\ log[j].op = "create"
           /\ log[i].payload["parent_account"] = TargetNameOf(log[j].payload)

\* C17 as claimed: in such a run every source record is created exactly
\* once, after its parent, and the MatchTable ends with one entry per source
\* record.
C17_EachCreatedOnceAfterParent_AsClaimed ==
  CleanRun =>
    /\ \A r \in Records : CreatedOnceAfterSomeParent(r)
    /\ Cardinality(DOMAIN target_norm_lookup) = Len(name_to_doc)

\* Record r was created exactly once, as itself, and a record with a parent
\* reference was created after its parent record's own create, with the
\* name the target returned for the parent as its parent.
CreatedOnceAfterParent(r) ==
  \E i \in CreatesOf(r) :
    /\ CreatesOf(r) = {i}
    /\ log[i].role = "own"
    /\ log[i].rec = r
    /\ ~Falsy(ParentOf(name_to_doc, r)) =>
         \E j \in CreatesOf(ParentRecord(r)) :
           /\ j < i
           /\ log[j].role = "own"
           /\ log[i].payload["parent_account"] = TargetNameOf(log[j].payload)

\* C17 amended: the same, for sources in which every parent reference
\* resolves to a source record; no other create is sent.
C17_EachCreatedOnceAfterParent ==
  (CleanRun /\ AllResolve) =>
    /\ \A r \in Records : CreatedOnceAfterParent(r)
    /\ Cardinality(Sent) = Len(name_to_doc)
    /\ Cardinality(DOMAIN target_norm_lookup) = Len(name_to_doc)

\* The documented scenario: source A without parent and "1000 - B" with
\* parent A; A is created first, then "1000 - B" under the target's name of
\* A, and the MatchTable holds two entries.
C17_Witness ==
  /\ CleanRun
  /\ SourceNames(name_to_doc) = <<NameA, NameB>>
  /\ ParentOf(name_to_doc, NameA) = None
  /\ ParentOf(name_to_doc, NameB) = NameA
  /\ Len(log) = 4
  /\ log[1].op = "create" /\ log[1].payload["name"] = NameA
  /\ log[3].op = "create" /\ log[3].payload["name"] = NameB
  /\ log[3].payload["parent_account"] = TargetPrefix \o NameA
  /\ Cardinality(DOMAIN target_norm_lookup) = 2

\* The minimal group record: is_group set, no parent, empty company.
Placeholder(account_name) ==
  [account_name |-> account_name, is_group |-> One, parent_account |-> None,
   company |-> <<>>]

\* The positions of the own create requests sent for record r.
OwnCreates(r) ==
  {i \in Sent : log[i].op = "create" /\ log[i].role = "own" /\ log[i].rec = r}

\* In a live run with the depths computed, r has depth 1 and each create of
\* r comes after the create of a placeholder parent with that account name.
PlaceholderBefore(r, account_name) ==
  (~dry_run /\ pc # "depths") =>
    /\ Depth(r) = 1
    /\ \A i \in OwnCreates(r) :
         \E j \in 1..(i - 1) :
           /\ log[j].op = "create"
           /\ log[j].role = "parent"
           /\ log[j].payload = Placeholder(account_name)

\* C18 as claimed: a record whose parent reference matches no source record
\* has depth 1, and before its create is sent a minimal placeholder group is
\* created whose name is the parent reference without its numeric prefix.
C18_PlaceholderParent_AsClaimed ==
  \A r \in Records :
    IsOrphan(r) => PlaceholderBefore(r, AccountNameOf(ParentOf(name_to_doc, r)))

\* C18 amended: the placeholder's account name is the parent reference as
\* the source wrote it, trimmed of surrounding whitespace.
C18_PlaceholderParent ==
  \A r \in Records :
    IsOrphan(r) => PlaceholderBefore(r, Strip(ParentOf(name_to_doc, r)))

\* The documented scenario: source "2000 - C" with parent "3000 - Root", no
\* Root in the source; the placeholder is created, then C.
C18_Witness ==
  /\ ~dry_run
  /\ pc = "done"
  /\ SourceNames(name_to_doc) = <<NameC>>
  /\ ParentOf(name_to_doc, NameC) = RefRoot
  /\ Depth(NameC) = 1
  /\ log[1].op = "create" /\ log[1].role = "parent"
  /\ log[1].payload = Placeholder(RefRoot)
  /\ OwnCreates(NameC) = {3}

---------------------------------------------------------------------------
(* Claim about the MatchTable, checked under Spec. *)

\* C19: no step of sync_all removes a key from the MatchTable: a key it
\* holds before a step it holds after it.
C19_MatchTableGrows ==
  [][DOMAIN target_norm_lookup \subseteq DOMAIN target_norm_lookup']_vars

\* A run whose MatchTable, seeded with one entry, has taken up a parent's
\* key and a record's own key.
C19_Witness ==
  /\ Cardinality(DOMAIN seed_lookup(target0)) = 1
  /\ DOMAIN seed_lookup(target0) \subseteq DOMAIN target_norm_lookup
  /\ Cardinality(DOMAIN target_norm_lookup) = 3
  /\ \E i, j \in 1..Len(log) :
       /\ log[i].op = "insert" /\ log[i].role = "parent"
       /\ log[j].op = "insert" /\ log[j].role = "own"

---------------------------------------------------------------------------
(* Claim about failures, checked under SpecFetch. *)

\* The positions of the failed calls of kind ops.
FailedCalls(ops) ==
  {i \in 1..Len(log) : log[i].op \in ops /\ log[i].result \in {"none", "raise"}}

\* C20: a failed inventory fetch is the last thing sync_all does: it raises
\* with no record processed and no request sent; and sync_all raises for no
\* other reason, whatever get, create or update failed.
C20_OnlyInventoryFailureIsFatal ==
  /\ \A i \in FailedCalls({"list"}) :
       /\ pc = "raised"
       /\ i = Len(log)
       /\ outcomes = <<>>
       /\ decisions = <<>>
       /\ \A j \in 1..Len(log) : log[j].op = "list"
       /\ target = target0
  /\ pc = "raised" => FailedCalls({"list"}) # {}

\* A run that raised on the target inventory, and runs that went to their
\* end through a failed get, a failed create and a failed update.
C20_Witness ==
  \/ /\ pc = "raised"
     /\ Len(log) = 2
     /\ log[2].role = "target"
  \/ /\ pc = "done"
     /\ FailedCalls({"get"}) # {}
     /\ FailedCalls({"create"}) # {}
  \/ /\ pc = "done"
     /\ FailedCalls({"update"}) # {}

---------------------------------------------------------------------------
(* Claims about the full fetch of a match and about updates, checked under *)
(* Spec.                                                                   *)

\* The positions of the full fetches that failed (get_account logged the
\* error and returned None), as opposed to those the store answered.
FailedFetches == {i \in 1..Len(log) : log[i].op = "get" /\ log[i].result = "none"}

\* C21: a record whose full fetch failed with a network error is skipped:
\* no create and no update is sent for it in this run.
C21_FailedFetchSkipsRecord ==
  \A i \in FailedFetches :
    \A j \in 1..Len(log) :
      ~(/\ log[j].op \in {"create", "update"}
        /\ log[j].role = "own"
        /\ log[j].rec = log[i].rec)

\* C22: every update is addressed to the name of a record the target holds,
\* never to the source name where the two differ, and no update payload
\* carries the identifying name.
C22_UpdateNeverRenames ==
  \A i \in Updates :
    /\ log[i].name \in TargetNames(target)
    /\ log[i].name \in TargetNames(target0) \cup
                          {CreatedDoc(log[j].payload)["name"] :
                             j \in {k \in 1..i : log[k].op = "create"}}
    /\ "name" \notin DOMAIN log[i].payload

\* An accepted update of a record whose target name is the source name with
\* an account number before it.
C22_Witness ==
  \E i \in Updates :
    /\ log[i].result = "ok"
    /\ log[i].name # log[i].rec
    /\ log[i].name = TargetPrefix \o log[i].rec
    /\ DOMAIN log[i].payload # {}

---------------------------------------------------------------------------
(* Claims about the order of the steps of a record and about the           *)
(* MatchTable, checked under Spec.                                         *)

\* The positions of the events of record r in role role with an op of ops.
EventsOf(r, role, ops) ==
  {i \in 1..Len(log) : log[i].rec = r /\ log[i].role = role /\ log[i].op \in ops}

\* C23: the full fetch of a record's own match comes after every step that
\* ensures the record's parent (the parent's creates and its MatchTable
\* insert).
C23_MatchResolvedAfterParent ==
  \A r \in Records :
    \A i \in EventsOf(r, "own", {"get"}) :
      \A j \in EventsOf(r, "parent", {"create", "insert"}) : j < i

---------------------------------------------------------------------------
(* Claim about the fields account_differences reports, checked under       *)
(* SpecDiff.                                                               *)

\* A missing, None or empty value as the empty string.
Blank(v) == IF v = None \/ v = <<>> THEN <<>> ELSE v

\* C24 as claimed: the parent reference is reported exactly when the
\* NormalizedKeys of the two parents differ, any other compared field exactly
\* when the values differ once missing, None and empty are the empty string,
\* and no other field is reported.
C24_DiffFields_AsClaimed ==
  \A i \in 1..Len(calls) :
    calls[i].how = "pair" =>
      \A f \in COMPARE_FIELDS \cup DOMAIN calls[i].res :
        f \in DOMAIN calls[i].res <=>
          /\ f \in COMPARE_FIELDS
          /\ IF f = "parent_account"
             THEN normalize_name(Get(calls[i].src, f)) # normalize_name(Get(calls[i].tgt, f))
             ELSE Blank(Get(calls[i].src, f)) # Blank(Get(calls[i].tgt, f))

\* The key account_differences compares a parent reference by: no key for a
\* missing, None or empty reference, else its NormalizedKey.
ComparedParentKey(v) ==
  IF v \in {None, <<>>, Zero} THEN <<"no key">> ELSE normalize_name(v)

\* A falsy value (missing, None, empty, 0) as the empty string.
BlankIfFalsy(v) == IF v \in {None, <<>>, Zero} THEN <<>> ELSE v

\* C24: the parent reference is reported exactly when the compared keys
\* differ, a missing, None or empty parent having no key (which differs from
\* every key, the empty one included); any other compared field exactly when
\* the values differ once every falsy value (missing, None, empty, 0) is the
\* empty string; no other field is reported, and a reported field carries
\* the pair (source value, target value).
C24_DiffFields ==
  \A i \in 1..Len(calls) :
    calls[i].how = "pair" =>
      /\ DOMAIN calls[i].res \subseteq COMPARE_FIELDS
      /\ \A f \in COMPARE_FIELDS :
           /\ f \in DOMAIN calls[i].res <=>
                IF f = "parent_account"
                THEN ComparedParentKey(Get(calls[i].src, f))
                       # ComparedParentKey(Get(calls[i].tgt, f))
                ELSE BlankIfFalsy(Get(calls[i].src, f)) # BlankIfFalsy(Get(calls[i].tgt, f))
           /\ f \in DOMAIN calls[i].res =>
                calls[i].res[f] = <<Get(calls[i].src, f), Get(calls[i].tgt, f)>>

\* Parents that differ by account number and case only, and types that
\* differ: account_type alone is reported.
C24_Witness ==
  /\ Len(calls) = 1
  /\ calls[1].how = "pair"
  /\ Get(calls[1].src, "parent_account") = <<"1", " ", "B">>
  /\ Get(calls[1].tgt, "parent_account") = <<"B">>
  /\ Get(calls[1].src, "account_type") = TypeX
  /\ Get(calls[1].tgt, "account_type") = TypeY
  /\ DOMAIN calls[1].res = {"account_type"}

\* The step appended an accepted create and the insert of the created
\* record under key: the parent's key for a parent create, the record's own
\* key for its own create.
CreateRecorded ==
  /\ Len(log') = Len(log) + 2
  /\ \E sent \in {log'[Len(log) + 1]}, ins \in {log'[Len(log) + 2]} :
       /\ sent.op = "create"
       /\ sent.result = "ok"
       /\ sent.rec = cur.src_name
       /\ ins.op = "insert"
       /\ ins.role = sent.role
       /\ ins.name = IF sent.role = "parent" THEN ParentKeyOf(cur.src_doc)
                     ELSE cur.src_norm
       /\ DOMAIN target_norm_lookup' = DOMAIN target_norm_lookup \cup {ins.name}
       /\ target_norm_lookup'[ins.name] = CreatedDoc(sent.payload)
       /\ target_norm_lookup'[ins.name] \in target'
       /\ \A k \in DOMAIN target_norm_lookup \ {ins.name} :
            target_norm_lookup'[k] = target_norm_lookup[k]

\* C25: in a live run a step changes the MatchTable only by recording the
\* record an accepted create returned, under the parent's key or the
\* record's own key, and every accepted create is so recorded; a failed
\* create, an update, a no-op and a skip leave the table as it is.
C25_LookupChangesOnlyByCreate ==
  [][~dry_run =>
       /\ target_norm_lookup' # target_norm_lookup => CreateRecorded
       /\ (\E i \in (Len(log) + 1)..Len(log') :
             log'[i].op = "create" /\ log'[i].result = "ok") => CreateRecorded]_vars

\* A finished live run with an accepted parent create, an accepted own
\* create, a failed create and an update.
C25_Witness ==
  /\ ~dry_run
  /\ pc = "done"
  /\ \E r \in Records : \E i \in EventsOf(r, "parent", {"create"}) : log[i].result = "ok"
  /\ \E r \in Records : \E i \in EventsOf(r, "own", {"create"}) : log[i].result = "ok"
  /\ \E i \in 1..Len(log) : log[i].op = "create" /\ log[i].result # "ok"
  /\ Updates # {}
  /\ Cardinality(DOMAIN target_norm_lookup) = Cardinality(DOMAIN seed_lookup(target0)) + 2

\* The positions of the create requests sent.
Creates == {i \in 1..Len(log) : log[i].op = "create"}

\* The NormalizedKey of the account the create at position i is for: the
\* record's own key, or the key of its parent reference for a parent create.
CreateKey(i) ==
  IF log[i].role = "parent"
  THEN ParentKeyOf(DocOf(name_to_doc, log[i].rec))
  ELSE normalize_name(log[i].rec)

\* C26: in a live run no create is sent for a key the target listing seeded
\* into the MatchTable, nor for a key an earlier create of this run
\* succeeded for.
C26_OneCreatePerKey ==
  ~dry_run =>
    \A j \in Creates :
      /\ CreateKey(j) \notin DOMAIN seed_lookup(target0)
      /\ \A i \in Creates : i < j /\ log[i].result = "ok" => CreateKey(i) # CreateKey(j)

\* C27: every update sent was built from a non-empty set of differences and
\* carries at least one field.
C27_UpdatePayloadNotEmpty ==
  \A i \in Updates :
    /\ DOMAIN log[i].diffs # {}
    /\ DOMAIN log[i].payload # {}

---------------------------------------------------------------------------
(* Claim about the async variant, checked under SpecAsync. *)

\* The positions of the parent creates sent for the key k.
ParentPostsFor(k) ==
  {i \in 1..Len(log) : log[i].op = "create" /\ log[i].role = "parent" /\ log[i].name = k}

\* C28: a missing parent is submitted for creation at most once: between
\* two creates sent for the same parent key, the first was answered with a
\* failure (the one case in which a second child may try again).
C28_ParentSubmittedOnce ==
  \A i \in 1..Len(log) :
    \A j \in ParentPostsFor(log[i].name) :
      (i \in ParentPostsFor(log[i].name) /\ i < j) =>
        \E k \in (i + 1)..(j - 1) :
          log[k].op = "failed" /\ log[k].rec = log[i].rec

---------------------------------------------------------------------------
(* Claim about protected fields, checked under SpecVary. *)

\* The target answered the first n calls of this run as it answered those
\* of the run before.
SameAnswers(n) ==
  /\ n <= Len(prev_decisions[2])
  /\ \A i \in 1..n : log[i].result = prev_decisions[2][i].result

\* C29: a run whose source differs from that of the run before in protected
\* fields only, and whose calls the target answers alike, sends the same
\* requests with the same payloads in the same order, and logs the same
\* decisions.
C29_ProtectedFieldsDoNotInfluence ==
  phase = 2 =>
    /\ \A n \in 1..Len(log) :
         SameAnswers(n - 1) =>
           /\ n <= Len(prev_decisions[2])
           /\ [log[n] EXCEPT !.result = "any"] =
                [prev_decisions[2][n] EXCEPT !.result = "any"]
    /\ (pc = "done" /\ SameAnswers(Len(log))) =>
         /\ log = prev_decisions[2]
         /\ decisions = prev_decisions[1]

\* A second run that ended with the history and decisions of the first,
\* having sent a create and an update and met a failed call.
C29_Witness ==
  /\ phase = 2
  /\ pc = "done"
  /\ log = prev_decisions[2]
  /\ decisions = prev_decisions[1]
  /\ Creates # {}
  /\ Updates # {}
  /\ \E i \in 1..Len(log) : log[i].result = "none"
  /\ \E k \in 1..Len(name_to_doc) : "balance" \notin DOMAIN name_to_doc[k]

---------------------------------------------------------------------------
(* Claim about a dry run and a live run of the same inventories, checked   *)
(* under PairSpec.                                                         *)

\* C5: when the target accepted every request, the decisions the live run
\* logged are, in order, the decisions the dry run logged.
C5_DryRunDecisionsMatchLive ==
  (phase = 2 /\ pc = "done" /\ \A i \in 1..Len(log) : log[i].result = "ok")
    => decisions = prev_decisions

====
